---- MODULE Spec2Model ----
(***************************************************************************)
(* A model of assets/js/HeadGestureManager.js: the sliding Window class,   *)
(* the SensorDataHandler built on two Windows, the threshold segmenter     *)
(* processDataV2 that the sensor subscription feeds, the prediction        *)
(* requests it sends and the animation the responses start.                *)
(*                                                                         *)
(* Sensor values are JavaScript numbers.  They are modelled as integers    *)
(* counting tenths (1.5 is 15, -1 is -10), which keeps every comparison of *)
(* the code exact; a mean is kept as an exact fraction.  Rounding of       *)
(* floating point sums and non-numeric samples (NaN) are not modelled.     *)
(***************************************************************************)
EXTENDS Integers, Sequences, FiniteSets, TLC

VARIABLES
    win,        \* a Window the test harness drives directly
    wret,       \* what the last call on win did: [op, thrown, value]
    wadds,      \* addData attempts on win so far, counted until the first slide
    wslid,      \* a slide of win has succeeded
    handler,    \* a SensorDataHandler: [accWindow, gyroWindow]
    hret,       \* what the last handleData call did: [thrown, value]
    calls,      \* handleData calls made so far
    fed,        \* the last windowSize combined samples given to handleData
    collectingData,         \* the module-level state of the segmenter
    inThresholdCounter,
    aboveThresholdCounter,
    accSequence,
    gyroSequence,
    pending,    \* prediction requests sent by fetch and not yet settled
    sent,       \* the bodies the last processDataV2 call handed to fetch
    isAnimationPlaying,
    height,     \* style.height of each model-viewer element
    playing,    \* the models whose animation is running
    ev,         \* the last IMU sample delivered: [accX, gyroY]
    capture     \* the samples delivered since the current capture opened

classVars == <<win, wret, wadds, wslid, handler, hret, calls, fed>>

segVars == <<collectingData, inThresholdCounter, aboveThresholdCounter,
             accSequence, gyroSequence>>

pageVars == <<isAnimationPlaying, height, playing>>

programVars == <<segVars, pending, sent, pageVars, ev, capture>>

vars == <<classVars, programVars>>

----------------------------------------------------------------------------
(* Bounds of the exploration. *)

\* Largest windowSize a Window is constructed with.
MaxCap == 3

\* addData attempts made on win before its first slide.
MaxAdds == 5

\* handleData calls made on handler.
MaxCalls == 9

\* Samples a capture holds at most in a run of the whole program.
MaxCapture == 21

\* Times the sample changes within one capture in a run of the whole
\* program: the stream is constant between two changes.
MaxChanges == 1

\* Prediction requests in flight at a time.
MaxPending == 2

\* Samples a capture holds at most, and times the sample changes within
\* it, when the segmenter is fed the wider set of values.
MaxShortCapture == 8

MaxShortChanges == 3

\* Samples (x, y, z) the harness feeds a Window.
Triples == {<<10, 30, -20>>, <<20, 20, 0>>, <<30, 10, 50>>}

\* Combined samples (acc, gyro) the harness feeds a SensorDataHandler.
Pairs == {<<<<10, 30, -20>>, <<20, 20, 0>>>>,
          <<<<20, 20, 0>>, <<30, 10, 50>>>>,
          <<<<30, 10, 50>>, <<10, 30, -20>>>>}

\* Samples of the run in which both harnesses act side by side.
FewTriples == {<<10, 30, -20>>, <<20, 20, 0>>}

FewPairs == {<<<<10, 30, -20>>, <<20, 20, 0>>>>,
             <<<<20, 20, 0>>, <<30, 10, 50>>>>}

\* The (windowSize, overlapSize) a Window is constructed with.  The
\* constructor checks neither, so overlapSize = windowSize is included.
Configs == {c \in (1..MaxCap) \X (0..MaxCap) : c[2] <= c[1]}

----------------------------------------------------------------------------
(* Values of the language. *)

\* No error thrown, no value returned.
None == "none"

\* A number as a fraction <<numerator, denominator>>; NaN, which is what
\* 0 / 0 gives, is the fraction with denominator 0.
Num(n) == <<n, 1>>

NaN == <<0, 0>>

\* What a call returned: nothing (it threw, or returns undefined), null, or a
\* feature summary; value holds the summary when there is one.
Nothing == [returned |-> "nothing", value |-> <<>>]

null == [returned |-> "null", value |-> <<>>]

Value(v) == [returned |-> "value", value |-> <<v>>]

Abs(n) == IF n < 0 THEN -n ELSE n

RECURSIVE GCD(_, _)
GCD(a, b) == IF b = 0 THEN a ELSE GCD(b, a % b)

\* The quotient sum / n of two integers, n > 0, as a fraction in lowest terms.
Quotient(sum, n) ==
    LET g == GCD(Abs(sum), n)
    IN  <<sum \div g, n \div g>>

RECURSIVE SeqSum(_)
SeqSum(s) == IF s = <<>> THEN 0 ELSE Head(s) + SeqSum(Tail(s))

Range(s) == {s[i] : i \in 1..Len(s)}

\* Math.min(...a) and Math.max(...a) of a non-empty array.
MathMin(a) == CHOOSE m \in Range(a) : \A v \in Range(a) : m <= v

MathMax(a) == CHOOSE m \in Range(a) : \A v \in Range(a) : m >= v

\* Array.prototype.slice(start) for start >= 0: the elements from the
\* 0-based index start to the end, none when start >= length.
slice(a, start) ==
    IF start >= Len(a) THEN <<>> ELSE SubSeq(a, start + 1, Len(a))

----------------------------------------------------------------------------
(* class Window *)

\* The last n elements of a, all of a when it has no more than n.
LastOf(a, n) == IF Len(a) <= n THEN a ELSE SubSeq(a, Len(a) - n + 1, Len(a))

\* new Window(windowSize, sensorType, overlapSize)
NewWindow(windowSize, sensorType, overlapSize) ==
    [windowSize |-> windowSize, sensorType |-> sensorType,
     overlapSize |-> overlapSize, x |-> <<>>, y |-> <<>>, z |-> <<>>]

getLength(w) == Len(w.x)

getMaxLength(w) == w.windowSize

\* isFull with the comparison off by one: a window of windowSize samples
\* still counts as not full.
isFull_OffByOne(w) == Len(w.x) > w.windowSize

isFull(w) == Len(w.x) >= w.windowSize

\* addData that pushes onto the x axis before it checks for room.
addData_PushFirst(w, x, y, z) ==
    IF isFull(w)
    THEN [thrown |-> "Window is full", w |-> [w EXCEPT !.x = Append(@, x)]]
    ELSE [thrown |-> None,
          w |-> [w EXCEPT !.x = Append(@, x), !.y = Append(@, y),
                          !.z = Append(@, z)]]

\* addData(x, y, z): the window after the call and the error thrown, if any.
addData(w, x, y, z) ==
    IF isFull(w)
    THEN [thrown |-> "Window is full", w |-> w]
    ELSE [thrown |-> None,
          w |-> [w EXCEPT !.x = Append(@, x), !.y = Append(@, y),
                          !.z = Append(@, z)]]

\* getAxisFeatures whose sum loop starts at index 1 and skips the first value.
getAxisFeatures_SkipFirst(axisData) ==
    [mean |-> Quotient(SeqSum(Tail(axisData)), Len(axisData)),
     min |-> Num(MathMin(axisData)),
     max |-> Num(MathMax(axisData))]

getAxisFeatures(axisData) ==
    [mean |-> Quotient(SeqSum(axisData), Len(axisData)),
     min |-> Num(MathMin(axisData)),
     max |-> Num(MathMax(axisData))]

AxisFeaturesOrNaN(axisData) ==
    IF Len(axisData) # 0
    THEN getAxisFeatures(axisData)
    ELSE [mean |-> NaN, min |-> NaN, max |-> NaN]

extractFeatures(w) ==
    [x |-> AxisFeaturesOrNaN(w.x),
     y |-> AxisFeaturesOrNaN(w.y),
     z |-> AxisFeaturesOrNaN(w.z)]

\* slide that ignores overlapSize and drops the whole buffer.
slide_DropAll(w) ==
    IF Len(w.x) < w.windowSize
    THEN [thrown |-> "Window is not full", w |-> w]
    ELSE [thrown |-> None,
          w |-> [w EXCEPT !.x = slice(@, w.windowSize),
                          !.y = slice(@, w.windowSize),
                          !.z = slice(@, w.windowSize)]]

\* slide that keeps the first overlapSize samples instead of the last.
slide_KeepFirst(w) ==
    IF Len(w.x) < w.windowSize
    THEN [thrown |-> "Window is not full", w |-> w]
    ELSE [thrown |-> None,
          w |-> [w EXCEPT !.x = SubSeq(@, 1, w.overlapSize),
                          !.y = SubSeq(@, 1, w.overlapSize),
                          !.z = SubSeq(@, 1, w.overlapSize)]]

\* slide that shortens the x axis only.
slide_XOnly(w) ==
    IF Len(w.x) < w.windowSize
    THEN [thrown |-> "Window is not full", w |-> w]
    ELSE [thrown |-> None,
          w |-> [w EXCEPT !.x = slice(@, w.windowSize - w.overlapSize)]]

\* slide(): the window after the call and the error thrown, if any.
slide(w) ==
    IF Len(w.x) < w.windowSize
    THEN [thrown |-> "Window is not full", w |-> w]
    ELSE [thrown |-> None,
          w |-> [w EXCEPT !.x = slice(@, w.windowSize - w.overlapSize),
                          !.y = slice(@, w.windowSize - w.overlapSize),
                          !.z = slice(@, w.windowSize - w.overlapSize)]]

----------------------------------------------------------------------------
(* class SensorDataHandler *)

NewSensorDataHandler(windowSize, overlapSize) ==
    [accWindow |-> NewWindow(windowSize, "accelerometer", overlapSize),
     gyroWindow |-> NewWindow(windowSize, "gyroscope", overlapSize)]

\* handleData that slides only the accelerometer window.
handleData_SlideOne(h, acc, gyro) ==
    LET a  == addData(h.accWindow, acc[1], acc[2], acc[3])
        g  == addData(h.gyroWindow, gyro[1], gyro[2], gyro[3])
        h2 == [accWindow |-> a.w, gyroWindow |-> g.w]
        features == [accelerometer |-> extractFeatures(a.w),
                     gyroscope |-> extractFeatures(g.w)]
        sa == slide(a.w)
    IN  IF a.thrown # None
        THEN [thrown |-> a.thrown, value |-> Nothing, h |-> h]
        ELSE IF g.thrown # None
        THEN [thrown |-> g.thrown, value |-> Nothing,
              h |-> [h EXCEPT !.accWindow = a.w]]
        ELSE IF isFull(a.w) /\ isFull(g.w)
        THEN [thrown |-> None, value |-> Value(features),
              h |-> [h2 EXCEPT !.accWindow = sa.w]]
        ELSE [thrown |-> None, value |-> null, h |-> h2]

\* handleData that slides the windows before it extracts the features.
handleData_ExtractAfterSlide(h, acc, gyro) ==
    LET a  == addData(h.accWindow, acc[1], acc[2], acc[3])
        g  == addData(h.gyroWindow, gyro[1], gyro[2], gyro[3])
        h2 == [accWindow |-> a.w, gyroWindow |-> g.w]
        sa == slide(a.w)
        sg == slide(g.w)
        features == [accelerometer |-> extractFeatures(sa.w),
                     gyroscope |-> extractFeatures(sg.w)]
    IN  IF a.thrown # None
        THEN [thrown |-> a.thrown, value |-> Nothing, h |-> h]
        ELSE IF g.thrown # None
        THEN [thrown |-> g.thrown, value |-> Nothing,
              h |-> [h EXCEPT !.accWindow = a.w]]
        ELSE IF isFull(a.w) /\ isFull(g.w)
        THEN [thrown |-> None, value |-> Value(features),
              h |-> [accWindow |-> sa.w, gyroWindow |-> sg.w]]
        ELSE [thrown |-> None, value |-> null, h |-> h2]

\* handleData that returns the features of full windows without sliding.
handleData_NoSlide(h, acc, gyro) ==
    LET a  == addData(h.accWindow, acc[1], acc[2], acc[3])
        g  == addData(h.gyroWindow, gyro[1], gyro[2], gyro[3])
        h2 == [accWindow |-> a.w, gyroWindow |-> g.w]
        features == [accelerometer |-> extractFeatures(a.w),
                     gyroscope |-> extractFeatures(g.w)]
    IN  IF a.thrown # None
        THEN [thrown |-> a.thrown, value |-> Nothing, h |-> h]
        ELSE IF g.thrown # None
        THEN [thrown |-> g.thrown, value |-> Nothing,
              h |-> [h EXCEPT !.accWindow = a.w]]
        ELSE IF isFull(a.w) /\ isFull(g.w)
        THEN [thrown |-> None, value |-> Value(features), h |-> h2]
        ELSE [thrown |-> None, value |-> null, h |-> h2]

\* handleData(acc, gyro): the handler after the call, the value returned and
\* the error that left the call, if any.  An error thrown by a Window call
\* is not caught: it ends handleData where it is thrown, with the calls made
\* before it already done.
handleData(h, acc, gyro) ==
    LET a  == addData(h.accWindow, acc[1], acc[2], acc[3])
        g  == addData(h.gyroWindow, gyro[1], gyro[2], gyro[3])
        h2 == [accWindow |-> a.w, gyroWindow |-> g.w]
        features == [accelerometer |-> extractFeatures(a.w),
                     gyroscope |-> extractFeatures(g.w)]
        sa == slide(a.w)
        sg == slide(g.w)
    IN  IF a.thrown # None
        THEN [thrown |-> a.thrown, value |-> Nothing, h |-> h]
        ELSE IF g.thrown # None
        THEN [thrown |-> g.thrown, value |-> Nothing,
              h |-> [h EXCEPT !.accWindow = a.w]]
        ELSE IF isFull(a.w) /\ isFull(g.w)
        THEN IF sa.thrown # None
             THEN [thrown |-> sa.thrown, value |-> Nothing, h |-> h2]
             ELSE IF sg.thrown # None
             THEN [thrown |-> sg.thrown, value |-> Nothing,
                   h |-> [h2 EXCEPT !.accWindow = sa.w]]
             ELSE [thrown |-> None, value |-> Value(features),
                   h |-> [accWindow |-> sa.w, gyroWindow |-> sg.w]]
        ELSE [thrown |-> None, value |-> null, h |-> h2]

----------------------------------------------------------------------------
(* The harness of the two classes: a Window and a SensorDataHandler are    *)
(* constructed with one (windowSize, overlapSize) and called in any order. *)

InitClasses(c) ==
    /\ win = NewWindow(c[1], "accelerometer", c[2])
    /\ handler = NewSensorDataHandler(c[1], c[2])
    /\ wret = [op |-> "new", thrown |-> None, value |-> Nothing]
    /\ wadds = 0
    /\ wslid = FALSE
    /\ hret = [thrown |-> None, value |-> Nothing]
    /\ calls = 0
    /\ fed = <<>>

\* win.addData(t[1], t[2], t[3]) for a sample t of S
WindowAddData(S) ==
    \E t \in S :
        LET r == addData(win, t[1], t[2], t[3])
        IN  /\ wslid \/ wadds < MaxAdds
            /\ win' = r.w
            /\ wret' = [op |-> "addData", thrown |-> r.thrown, value |-> Nothing]
            /\ wadds' = IF wslid THEN wadds ELSE wadds + 1
            /\ UNCHANGED <<wslid, handler, hret, calls, fed, programVars>>

\* win.slide()
WindowSlide ==
    LET r == slide(win)
    IN  /\ win' = r.w
        /\ wret' = [op |-> "slide", thrown |-> r.thrown, value |-> Nothing]
        /\ wslid' = (wslid \/ r.thrown = None)
        /\ wadds' = IF r.thrown = None THEN 0 ELSE wadds
        /\ UNCHANGED <<handler, hret, calls, fed, programVars>>

\* win.extractFeatures() that empties the buffers it has read.
WindowExtractFeatures_Drains ==
    /\ wret' = [op |-> "extractFeatures", thrown |-> None,
                value |-> Value(extractFeatures(win))]
    /\ win' = [win EXCEPT !.x = <<>>, !.y = <<>>, !.z = <<>>]
    /\ UNCHANGED <<wadds, wslid, handler, hret, calls, fed, programVars>>

\* win.extractFeatures()
WindowExtractFeatures ==
    /\ wret' = [op |-> "extractFeatures", thrown |-> None,
                value |-> Value(extractFeatures(win))]
    /\ UNCHANGED <<win, wadds, wslid, handler, hret, calls, fed, programVars>>

\* handler.handleData(p[1], p[2]) for a combined sample p of S
HandleData(S) ==
    \E p \in S :
        LET r == handleData(handler, p[1], p[2])
        IN  /\ calls < MaxCalls
            /\ handler' = r.h
            /\ hret' = [thrown |-> r.thrown, value |-> r.value]
            /\ calls' = calls + 1
            /\ fed' = LastOf(Append(fed, p), getMaxLength(handler.accWindow))
            /\ UNCHANGED <<win, wret, wadds, wslid, programVars>>

NextWindow ==
    \/ WindowAddData(Triples)
    \/ WindowSlide
    \/ WindowExtractFeatures

NextHandler == HandleData(Pairs)

NextClasses ==
    \/ WindowAddData(FewTriples)
    \/ WindowSlide
    \/ WindowExtractFeatures
    \/ HandleData(FewPairs)

----------------------------------------------------------------------------
(* The segmenter: module-level state and processDataV2.                    *)
(* Thresholds are in tenths, like the samples.                             *)

gyroscopeYThreshold == 15

anomalyEndThresholdLow == -10

anomalyEndThresholdHigh == 10

startThresholdCount == 1

minimumAnomalyLength == 20

counterThreshold == 5

\* The element ids of the animated models.
ModelIDs == {"idle_model", "leftslip_model", "rightslip_model",
             "leftroll_model", "rightroll_model", "pullback_model"}

\* The module-level state as one record, which the functions below take and
\* give back: the segmenter's five variables, the fetches in flight, the
\* animation flag, the page's model elements and the global
\* sensorDataHandler that updateProgressBar reads.
Globals ==
    [collectingData |-> collectingData,
     inThresholdCounter |-> inThresholdCounter,
     aboveThresholdCounter |-> aboveThresholdCounter,
     accSequence |-> accSequence,
     gyroSequence |-> gyroSequence,
     pending |-> pending,
     sent |-> sent,
     isAnimationPlaying |-> isAnimationPlaying,
     height |-> height,
     playing |-> playing,
     sensorDataHandler |-> handler]

SetGlobals(g) ==
    /\ collectingData' = g.collectingData
    /\ inThresholdCounter' = g.inThresholdCounter
    /\ aboveThresholdCounter' = g.aboveThresholdCounter
    /\ accSequence' = g.accSequence
    /\ gyroSequence' = g.gyroSequence
    /\ pending' = g.pending
    /\ sent' = g.sent
    /\ isAnimationPlaying' = g.isAnimationPlaying
    /\ height' = g.height
    /\ playing' = g.playing
    /\ handler' = g.sensorDataHandler

InitGlobals ==
    /\ accSequence = <<>>
    /\ gyroSequence = <<>>
    /\ collectingData = FALSE
    /\ inThresholdCounter = 0
    /\ aboveThresholdCounter = 0
    /\ pending = 0
    /\ sent = <<>>
    /\ isAnimationPlaying = FALSE
    /\ height = [m \in ModelIDs |-> IF m = "idle_model" THEN "30vh" ELSE "0"]
    /\ playing = {}
    /\ ev = [accX |-> 0, gyroY |-> 0]
    /\ capture = <<>>

\* The threshold test letting a sample on the threshold count as above it.
IsAboveThreshold_Inclusive(gyroData) == Abs(gyroData.Y) >= gyroscopeYThreshold

\* Math.abs(gyroData.Y) > gyroscopeYThreshold
IsAboveThreshold(gyroData) == Abs(gyroData.Y) > gyroscopeYThreshold

\* The end band test with its bounds excluded.
InEndThresholds_Strict(gyroData) ==
    anomalyEndThresholdLow < gyroData.Y /\ gyroData.Y < anomalyEndThresholdHigh

\* anomalyEndThresholdLow <= gyroData.Y && gyroData.Y <= anomalyEndThresholdHigh
InEndThresholds(gyroData) ==
    anomalyEndThresholdLow <= gyroData.Y /\ gyroData.Y <= anomalyEndThresholdHigh

\* The length test refusing a capture of exactly minimumAnomalyLength.
IsLongEnough_Strict(g) == Len(g.gyroSequence) > minimumAnomalyLength

\* gyroSequence.length >= minimumAnomalyLength
IsLongEnough(g) == Len(g.gyroSequence) >= minimumAnomalyLength

\* "Anomaly detection": count the consecutive samples above the threshold.
CountAboveThreshold(g, gyroData) ==
    [g EXCEPT !.aboveThresholdCounter =
                  IF IsAboveThreshold(gyroData) THEN @ + 1 ELSE 0]

\* "If anomaly is detected, start collecting data".
StartCollecting(g) ==
    IF g.aboveThresholdCounter >= startThresholdCount /\ ~g.collectingData
    THEN [g EXCEPT !.collectingData = TRUE,
                   !.accSequence = <<>>,
                   !.gyroSequence = <<>>,
                   !.inThresholdCounter = 0]
    ELSE g

\* Collect pushing the gyroscope value as it comes, not inverted.
Collect_NoInvert(g, accData, gyroData) ==
    [g EXCEPT !.gyroSequence = Append(@, gyroData.Y),
              !.accSequence = Append(@, accData.X),
              !.inThresholdCounter =
                  IF InEndThresholds(gyroData) THEN @ + 1 ELSE 0]

\* "Mid-anomaly data collection": push the sample, count the end band run.
Collect(g, accData, gyroData) ==
    [g EXCEPT !.gyroSequence = Append(@, -gyroData.Y),
              !.accSequence = Append(@, accData.X),
              !.inThresholdCounter =
                  IF InEndThresholds(gyroData) THEN @ + 1 ELSE 0]

\* makePredictionV2(sequence): fetch sends the request and the function
\* returns; what the response does is thenPrediction and catchError.
makePredictionV2(g, sequence) ==
    [g EXCEPT !.pending = @ + 1, !.sent = Append(@, sequence)]

\* StopCollecting that clears the gyroscope sequence only.
StopCollecting_KeepsAcc(g) ==
    IF g.inThresholdCounter >= counterThreshold
    THEN LET g1 == [g EXCEPT !.collectingData = FALSE]
             g2 == IF IsLongEnough(g1)
                   THEN makePredictionV2(g1, g1.gyroSequence \o g1.accSequence)
                   ELSE g1
         IN  [g2 EXCEPT !.gyroSequence = <<>>]
    ELSE g

\* StopCollecting that closes the capture one in-band sample early.
StopCollecting_OneEarly(g) ==
    IF g.inThresholdCounter >= counterThreshold - 1
    THEN LET g1 == [g EXCEPT !.collectingData = FALSE]
             g2 == IF IsLongEnough(g1)
                   THEN makePredictionV2(g1, g1.gyroSequence \o g1.accSequence)
                   ELSE g1
         IN  [g2 EXCEPT !.accSequence = <<>>, !.gyroSequence = <<>>]
    ELSE g

\* "Stop collecting data if the condition of 5 samples within threshold is
\* met": send the capture when it is long enough, clear it either way.
StopCollecting(g) ==
    IF g.inThresholdCounter >= counterThreshold
    THEN LET g1 == [g EXCEPT !.collectingData = FALSE]
             g2 == IF IsLongEnough(g1)
                   THEN makePredictionV2(g1, g1.gyroSequence \o g1.accSequence)
                   ELSE g1
         IN  [g2 EXCEPT !.accSequence = <<>>, !.gyroSequence = <<>>]
    ELSE g

\* processDataV2 that counts the end band run on every sample, collecting
\* or not.
processDataV2_CountsAlways(g, accData, gyroData) ==
    LET g0 == [g EXCEPT !.sent = <<>>]
        g1 == StartCollecting(CountAboveThreshold(g0, gyroData))
    IN  IF g1.collectingData
        THEN StopCollecting(Collect(g1, accData, gyroData))
        ELSE [g1 EXCEPT !.inThresholdCounter =
                            IF InEndThresholds(gyroData) THEN @ + 1 ELSE 0]

processDataV2(g, accData, gyroData) ==
    LET g0 == [g EXCEPT !.sent = <<>>]
        g1 == StartCollecting(CountAboveThreshold(g0, gyroData))
    IN  IF g1.collectingData
        THEN StopCollecting(Collect(g1, accData, gyroData))
        ELSE g1

\* The listener feeding the fixed-window handler as well.
subscriptionCallback_FeedsHandler(g, sensorData) ==
    IF sensorData.sensorId # 0
    THEN g
    ELSE LET accData == [X |-> sensorData.ACC.X, Y |-> sensorData.ACC.Y,
                         Z |-> sensorData.ACC.Z]
             gyroData == [X |-> sensorData.GYRO.X, Y |-> sensorData.GYRO.Y,
                          Z |-> sensorData.GYRO.Z]
             h == handleData(g.sensorDataHandler,
                             <<accData.X, accData.Y, accData.Z>>,
                             <<gyroData.X, gyroData.Y, gyroData.Z>>).h
         IN  [processDataV2(g, accData, gyroData) EXCEPT !.sensorDataHandler = h]

\* The listener given to subscribeOnSensorDataReceived.
subscriptionCallback(g, sensorData) ==
    IF sensorData.sensorId # 0
    THEN g
    ELSE LET accData == [X |-> sensorData.ACC.X, Y |-> sensorData.ACC.Y,
                         Z |-> sensorData.ACC.Z]
             gyroData == [X |-> sensorData.GYRO.X, Y |-> sensorData.GYRO.Y,
                          Z |-> sensorData.GYRO.Z]
         IN  processDataV2(g, accData, gyroData)

----------------------------------------------------------------------------
(* The animation. *)

\* playAnimation without the test that ignores a request made while an
\* animation is playing.
playAnimation_NoGuard(g, modelID) ==
    [g EXCEPT !.isAnimationPlaying = TRUE,
              !.height = [[@ EXCEPT !["idle_model"] = "0"]
                             EXCEPT ![modelID] = "30vh"],
              !.playing = @ \cup {modelID}]

playAnimation(g, modelID) ==
    IF g.isAnimationPlaying /\ modelID # "idle_model"
    THEN g
    ELSE [g EXCEPT !.isAnimationPlaying = TRUE,
                   !.height = [[@ EXCEPT !["idle_model"] = "0"]
                                  EXCEPT ![modelID] = "30vh"],
                   !.playing = @ \cup {modelID}]

switchBackToIdle(g, modelID) ==
    [g EXCEPT !.height = [[@ EXCEPT ![modelID] = "0"]
                             EXCEPT !["idle_model"] = "30vh"],
              !.isAnimationPlaying = FALSE]

\* A response handler that resets the segmenter for the next gesture.
thenPrediction_Resets(g, data) ==
    [g EXCEPT !.collectingData = FALSE, !.accSequence = <<>>,
              !.gyroSequence = <<>>]

\* The .then((data) => ...) of makePredictionV2's fetch.
thenPrediction(g, data) ==
    CASE data.prediction = "Left Slip" -> playAnimation(g, "leftslip_model")
      [] data.prediction = "Right Slip" -> playAnimation(g, "rightslip_model")
      [] data.prediction = "Left Roll" -> playAnimation(g, "leftroll_model")
      [] data.prediction = "Right Roll" -> playAnimation(g, "rightroll_model")
      [] data.prediction = "Pull Back" -> playAnimation(g, "pullback_model")
      [] OTHER -> g

\* The .catch((error) => ...) of makePredictionV2's fetch: it logs.
catchError(g) == g

----------------------------------------------------------------------------
(* The sensor stream and the events of the running page. *)

Sample(a, y) == [accX |-> a, gyroY |-> y]

\* The IMU samples of the whole-program runs: above the threshold on either
\* side, in the end band, on the end band's upper edge.
ProgSamples == {Sample(3, 20), Sample(7, -20), Sample(3, 0), Sample(7, 10)}

\* The IMU samples the segmenter is fed directly: both sides of and on each
\* threshold (-2, -1.5, -1, 0, 1, 1.2, 1.5, 2).
SegSamples == {Sample(3, -20), Sample(7, -15), Sample(3, -10), Sample(7, 0),
               Sample(3, 10), Sample(7, 12), Sample(3, 15), Sample(7, 20)}

\* The predictions the server answers with in the runs.
Predictions == {"Left Slip", "Pull Back", "Idle"}

\* A sensorData object of the IMU (sensorId 0) carrying sample s.
IMUData(s) ==
    [sensorId |-> 0,
     ACC |-> [X |-> s.accX, Y |-> 0, Z |-> 0],
     GYRO |-> [X |-> 0, Y |-> s.gyroY, Z |-> 0]]

\* The number of places where a sequence differs from its predecessor.
Changes(q) == Cardinality({i \in 1..(Len(q) - 1) : q[i] # q[i + 1]})

\* The streams explored: a capture holds at most maxLen samples and changes
\* its sample at most maxChanges times; outside a capture any sample comes.
StreamAllows(s, maxLen, maxChanges) ==
    collectingData =>
        /\ Len(capture) < maxLen
        /\ s = capture[Len(capture)] \/ Changes(capture) < maxChanges

\* What a delivered sample s leaves in ev and capture, g being the state
\* after it: capture restarts at the sample that opens a capture and holds
\* the closed capture until the next sample.
Record(s, g) ==
    /\ ev' = s
    /\ capture' = IF collectingData THEN Append(capture, s)
                  ELSE IF g.collectingData THEN <<s>>
                  ELSE <<>>

\* The subscription delivers an IMU sample.
OnSensorData ==
    \E s \in ProgSamples :
        LET g == subscriptionCallback(Globals, IMUData(s))
        IN  /\ StreamAllows(s, MaxCapture, MaxChanges)
            /\ g.pending <= MaxPending
            /\ SetGlobals(g)
            /\ Record(s, g)
            /\ UNCHANGED <<win, wret, wadds, wslid, hret, calls, fed>>

\* The subscription delivers the data of another sensor.
OnOtherSensorData ==
    /\ SetGlobals(subscriptionCallback(Globals, [sensorId |-> 1]))
    /\ UNCHANGED <<win, wret, wadds, wslid, hret, calls, fed, ev, capture>>

\* A prediction request is answered.
OnPrediction ==
    \E p \in Predictions :
        /\ pending > 0
        /\ SetGlobals(thenPrediction([Globals EXCEPT !.pending = @ - 1],
                                     [prediction |-> p]))
        /\ UNCHANGED <<win, wret, wadds, wslid, hret, calls, fed, ev, capture>>

\* A prediction request fails.
OnFetchError ==
    /\ pending > 0
    /\ SetGlobals(catchError([Globals EXCEPT !.pending = @ - 1]))
    /\ UNCHANGED <<win, wret, wadds, wslid, hret, calls, fed, ev, capture>>

\* The animation of a model ends: its "finished" listeners run.  Every
\* playAnimation(m) adds one more listener calling switchBackToIdle(m);
\* running it again changes nothing, so one call stands for all of them.
OnFinished ==
    \E m \in playing :
        /\ SetGlobals(switchBackToIdle([Globals EXCEPT !.playing = @ \ {m}], m))
        /\ UNCHANGED <<win, wret, wadds, wslid, hret, calls, fed, ev, capture>>

Next ==
    \/ OnSensorData
    \/ OnOtherSensorData
    \/ OnPrediction
    \/ OnFetchError
    \/ OnFinished

\* processDataV2 called directly on a sample of the wider set.
FeedSegmenter ==
    \E s \in SegSamples :
        LET g == processDataV2(Globals, [X |-> s.accX, Y |-> 0, Z |-> 0],
                               [X |-> 0, Y |-> s.gyroY, Z |-> 0])
        IN  /\ StreamAllows(s, MaxShortCapture, MaxShortChanges)
            /\ g.pending <= MaxPending
            /\ SetGlobals(g)
            /\ Record(s, g)
            /\ UNCHANGED <<win, wret, wadds, wslid, hret, calls, fed>>

NextSegmenter == FeedSegmenter

\* The page as loaded.  sensorDataHandler is set outside this file; it is
\* taken as a handler of the largest size without overlap.
Init == InitClasses(<<MaxCap, 0>>) /\ InitGlobals

Spec == Init /\ [][Next]_vars

SpecSeg == Init /\ [][NextSegmenter]_vars

InitHarness == (\E c \in Configs : InitClasses(c)) /\ InitGlobals

SpecWindow == InitHarness /\ [][NextWindow]_vars

SpecHandler == InitHarness /\ [][NextHandler]_vars

SpecClasses == InitHarness /\ [][NextClasses]_vars

----------------------------------------------------------------------------
(* Properties of the two classes. *)

Min(a, b) == IF a < b THEN a ELSE b

IsSummary(v) == v.returned = "value"

\* C1: a SensorDataHandler of capacity C and overlap V, 0 <= V < C, fed one
\* combined sample per handleData call, returns null on calls 1..C-1, a
\* feature summary on call C, and from then on a feature summary exactly on
\* every (C-V)-th call and null on the calls in between.
C1_OutputCycle ==
    LET C == handler.accWindow.windowSize
        V == handler.accWindow.overlapSize
    IN  (V < C /\ calls >= 1) =>
            /\ hret.thrown = None
            /\ IsSummary(hret.value) <=>
                   (calls >= C /\ (calls - C) % (C - V) = 0)
            /\ ~IsSummary(hret.value) => hret.value = null

\* The third summary of a handler of capacity 3 and overlap 1 (call 7).
C1_Witness ==
    /\ handler.accWindow.windowSize = 3
    /\ handler.accWindow.overlapSize = 1
    /\ calls = 7
    /\ IsSummary(hret.value)

\* C8: slide() on a full Window of capacity C and overlap V, 0 <= V < C,
\* leaves each axis with exactly V samples, the last V of the buffer before
\* the slide in their order; with V = 0 the window becomes empty.
C8_SlideKeepsLastOverlap ==
    [][ LET C == win.windowSize
            V == win.overlapSize
        IN  (wret'.op = "slide" /\ calls' = calls /\ V < C
             /\ getLength(win) = C) =>
                /\ wret'.thrown = None
                /\ win'.x = SubSeq(win.x, C - V + 1, C)
                /\ win'.y = SubSeq(win.y, C - V + 1, C)
                /\ win'.z = SubSeq(win.z, C - V + 1, C)
                /\ Len(win'.x) = V /\ Len(win'.y) = V /\ Len(win'.z) = V
                /\ V = 0 => (win'.x = <<>> /\ win'.y = <<>> /\ win'.z = <<>>)
      ]_vars

\* A window of capacity 3 and overlap 2 right after a slide, holding two
\* different samples.
C8_Witness ==
    /\ wret.op = "slide" /\ wret.thrown = None
    /\ win.windowSize = 3 /\ win.overlapSize = 2
    /\ Len(win.x) = 2 /\ win.x[1] # win.x[2]

\* C9: for a Window of capacity C that starts empty, after n addData
\* attempts and no slide getLength() is min(n, C), and every addData
\* attempted when the window already holds C samples fails with the
\* capacity error "Window is full".
C9_LengthIsMinAttempts ==
    ~wslid =>
        /\ getLength(win) = Min(wadds, win.windowSize)
        /\ wret.op = "addData" =>
               /\ wret.thrown \in {None, "Window is full"}
               /\ wret.thrown = "Window is full" <=> wadds > win.windowSize

\* The second refused addData on a window of capacity 3.
C9_Witness ==
    /\ ~wslid /\ win.windowSize = 3 /\ wadds = 5
    /\ wret.op = "addData" /\ wret.thrown = "Window is full"

\* C10: a contract violation is reported and changes nothing: addData on a
\* full Window throws "Window is full", slide on a Window holding fewer than
\* capacity samples throws "Window is not full", both leave the three axes
\* as they were, and handleData lets such an error out to its caller and
\* returns no result.
C10_ViolationChangesNothing ==
    [][ /\ (calls' = calls /\ wret'.op = "addData" /\ isFull(win)) =>
               (wret'.thrown = "Window is full" /\ win' = win)
        /\ (calls' = calls /\ wret'.op = "slide"
            /\ getLength(win) < win.windowSize) =>
               (wret'.thrown = "Window is not full" /\ win' = win)
        /\ (calls' = calls /\ wret'.thrown # None) => win' = win
        /\ (calls' # calls /\ isFull(handler.accWindow)) =>
               /\ hret'.thrown = "Window is full"
               /\ handler' = handler
        /\ (calls' # calls /\ hret'.thrown # None) => hret'.value = Nothing
      ]_vars

\* handleData has let "Window is full" out and the last call on the lone
\* window was a refused slide.
C10_Witness ==
    /\ hret.thrown = "Window is full" /\ hret.value = Nothing
    /\ wret.op = "slide" /\ wret.thrown = "Window is not full"
    /\ Len(win.x) >= 1

----------------------------------------------------------------------------
(* Properties of the segmenter and of the running page. *)

\* The closed interval the end of a capture is tested against.
InBand(y) == anomalyEndThresholdLow <= y /\ y <= anomalyEndThresholdHigh

\* The step closes a capture: COLLECTING -> IDLE.
Closes == collectingData /\ ~collectingData'

\* C2: the segmenter emits a prediction request only at a step that closes
\* a capture holding, from its opening to its closing sample, at least
\* minimumAnomalyLength samples; a capture that closes with fewer emits
\* nothing, and a capture emits at most once.
C2_EmitOnlyQualifyingCapture ==
    [][ /\ Closes =>
               /\ Len(sent') =
                      (IF Len(capture') >= minimumAnomalyLength THEN 1 ELSE 0)
               /\ pending' = pending + Len(sent')
        /\ ~Closes =>
               /\ pending' <= pending
               /\ sent' = <<>> \/ sent' = sent
      ]_vars

\* A capture of exactly minimumAnomalyLength samples has closed and was sent.
C2_Witness ==
    /\ ~collectingData
    /\ Len(capture) = minimumAnomalyLength
    /\ Len(sent) = 1

\* C3: an emitted sequence has length 2n, n being the number of steps from
\* the one that opened the capture to the one that closed it; its first n
\* elements are the negated gyroscope Y values of those steps in order, its
\* last n their accelerometer X values in order.
C3_EmittedSequence ==
    sent # <<>> =>
        LET n == Len(capture)
            p == sent[1]
        IN  /\ Len(sent) = 1
            /\ n >= 1
            /\ Len(p) = 2 * n
            /\ \A i \in 1..n :
                   /\ p[i] = -capture[i].gyroY
                   /\ p[n + i] = capture[i].accX

\* An emitted capture of 21 samples that opened on a negative excursion and
\* whose accelerometer value changed on the way.
C3_Witness ==
    /\ sent # <<>>
    /\ Len(capture) = 21
    /\ capture[1].gyroY = -20
    /\ capture[21].accX # capture[1].accX

\* C4: the end band lying within the excursion threshold, an in-band sample
\* after startThresholdCount - 1 samples above the threshold leaves the
\* segmenter IDLE; it goes IDLE -> COLLECTING exactly at the step where the
\* count of consecutive samples above the threshold reaches
\* startThresholdCount, and at that step the sequences hold the opening
\* sample alone and inThresholdCounter is 0.
C4_OpensAtStartRun ==
    [][ LET y == ev'.gyroY
            run == IF Abs(y) > gyroscopeYThreshold
                   THEN aboveThresholdCounter + 1 ELSE 0
        IN  (/\ ~collectingData
             /\ -gyroscopeYThreshold <= anomalyEndThresholdLow
             /\ anomalyEndThresholdHigh <= gyroscopeYThreshold) =>
                /\ aboveThresholdCounter' = run
                /\ collectingData' <=> run >= startThresholdCount
                /\ (aboveThresholdCounter = startThresholdCount - 1 /\ InBand(y))
                       => ~collectingData'
                /\ collectingData' =>
                       /\ gyroSequence' = <<-y>>
                       /\ accSequence' = <<ev'.accX>>
                       /\ inThresholdCounter' = 0
                /\ ~collectingData' =>
                       UNCHANGED <<gyroSequence, accSequence, inThresholdCounter>>
      ]_vars

\* A capture just opened by a negative excursion.
C4_Witness ==
    /\ collectingData
    /\ capture = <<Sample(3, -20)>>
    /\ gyroSequence = <<20>>
    /\ inThresholdCounter = 0

\* C5: while COLLECTING the segmenter returns to IDLE at a step exactly when
\* the gyroscope Y of that step and of the counterThreshold - 1 samples
\* collected before it in the same capture all lie in the closed end band
\* (the signed value); samples above the threshold arriving during a capture
\* and aboveThresholdCounter falling to 0 neither end nor restart it.
C5_ClosesOnEndRunOnly ==
    [][ LET c == Append(capture, ev')
            n == Len(c)
            endRun == /\ n >= counterThreshold
                      /\ \A i \in (n - counterThreshold + 1)..n :
                             InBand(c[i].gyroY)
        IN  collectingData =>
                /\ ~collectingData' <=> endRun
                /\ collectingData' =>
                       /\ gyroSequence' = Append(gyroSequence, -ev'.gyroY)
                       /\ accSequence' = Append(accSequence, ev'.accX)
      ]_vars

\* A capture going on after an in-band sample was followed by a sample above
\* the threshold and by one below it: aboveThresholdCounter is back at 0.
C5_Witness ==
    /\ collectingData
    /\ Len(capture) >= 4
    /\ InBand(capture[2].gyroY)
    /\ Abs(capture[3].gyroY) > gyroscopeYThreshold
    /\ aboveThresholdCounter = 0
    /\ Len(gyroSequence) = Len(capture)

\* The step delivers an IMU sample to the subscription's listener.
SampleStep == <<ev, capture, segVars>>' # <<ev, capture, segVars>>

RECURSIVE TrailingInBand(_)
TrailingInBand(q) ==
    IF q = <<>> \/ ~InBand(q[Len(q)].gyroY)
    THEN 0
    ELSE 1 + TrailingInBand(SubSeq(q, 1, Len(q) - 1))

\* The number of samples at the end of q that exceed the threshold.
RECURSIVE TrailingAbove(_)
TrailingAbove(q) ==
    IF q = <<>> \/ ~(Abs(q[Len(q)].gyroY) > gyroscopeYThreshold)
    THEN 0
    ELSE 1 + TrailingAbove(SubSeq(q, 1, Len(q) - 1))

\* C7: prediction requests are fire and forget.  A response, a failure or
\* the end of an animation changes nothing of the segmenter, and whatever
\* is pending the segmenter's state is the one the samples alone determine,
\* so that a capture opens, closes and is sent while an earlier request is
\* still unanswered.
C7_FireAndForget ==
    /\ [][ (pending' < pending \/ pageVars' # pageVars) =>
               UNCHANGED <<segVars, sent, ev, capture>> ]_vars
    /\ [](IF collectingData
          THEN /\ Len(gyroSequence) = Len(capture)
               /\ Len(accSequence) = Len(capture)
               /\ inThresholdCounter = TrailingInBand(capture)
               /\ aboveThresholdCounter = TrailingAbove(capture)
          ELSE /\ gyroSequence = <<>>
               /\ accSequence = <<>>
               /\ aboveThresholdCounter = 0)

\* A second request has just been sent while the first is still pending.
C7_Witness ==
    /\ pending = 2
    /\ Len(sent) = 1
    /\ ~collectingData
    /\ Len(capture) >= minimumAnomalyLength

\* C11: whatever calls of addData, slide and extractFeatures were made on a
\* Window with 0 <= overlapSize < windowSize, refused ones included, its
\* three axes hold the same number of values, between 0 and windowSize.
C11_AxesInLockStep ==
    (0 <= win.overlapSize /\ win.overlapSize < win.windowSize) =>
        /\ Len(win.x) = Len(win.y)
        /\ Len(win.y) = Len(win.z)
        /\ 0 <= getLength(win)
        /\ getLength(win) <= getMaxLength(win)

\* A window that has slid, was filled again and has just refused a sample.
C11_Witness ==
    /\ win.windowSize = MaxCap
    /\ win.overlapSize = 1
    /\ wslid
    /\ wret.op = "addData"
    /\ wret.thrown = "Window is full"
    /\ Len(win.z) = MaxCap

----------------------------------------------------------------------------
\* C12: the two windows of a handler have one windowSize and one
\* overlapSize and hold the same number of samples after every handleData
\* call.  A call that returns adds one sample to each window, and either
\* both windows slide in that call or neither does.
C12_WindowsMoveTogether ==
    /\ [](/\ handler.accWindow.windowSize = handler.gyroWindow.windowSize
          /\ handler.accWindow.overlapSize = handler.gyroWindow.overlapSize
          /\ getLength(handler.accWindow) = getLength(handler.gyroWindow))
    /\ [][ (calls' = calls + 1 /\ hret'.thrown = None) =>
             LET a  == handler.accWindow
                 g  == handler.gyroWindow
                 a2 == handler'.accWindow
                 g2 == handler'.gyroWindow
                 Kept(w, w2) == /\ Len(w2.x) = Len(w.x) + 1
                                /\ SubSeq(w2.x, 1, Len(w.x)) = w.x
                 Slid(w, w2) == /\ Len(w.x) + 1 = w.windowSize
                                /\ Len(w2.x) = w.overlapSize
             IN  \/ Kept(a, a2) /\ Kept(g, g2) /\ hret'.value = null
                 \/ Slid(a, a2) /\ Slid(g, g2) /\ IsSummary(hret'.value) ]_vars

\* Both windows have slid twice and hold the overlap again.
C12_Witness ==
    /\ handler.accWindow.windowSize = 3
    /\ handler.accWindow.overlapSize = 1
    /\ calls = 5
    /\ IsSummary(hret.value)
    /\ getLength(handler.accWindow) = 1
    /\ getLength(handler.gyroWindow) = 1

----------------------------------------------------------------------------
\* Axis j of sensor k (1 accelerometer, 2 gyroscope) of the combined
\* samples q, in the order they were given.
AxisOf(q, k, j) == [i \in 1..Len(q) |-> q[i][k][j]]

\* The features of sensor k of the combined samples q.
FeaturesOf(q, k) ==
    [x |-> AxisFeaturesOrNaN(AxisOf(q, k, 1)),
     y |-> AxisFeaturesOrNaN(AxisOf(q, k, 2)),
     z |-> AxisFeaturesOrNaN(AxisOf(q, k, 3))]

\* Window w holds, in order, the last getLength(w) samples of sensor k
\* given to the handler.
HoldsLatest(w, k) ==
    /\ w.x = LastOf(AxisOf(fed, k, 1), getLength(w))
    /\ w.y = LastOf(AxisOf(fed, k, 2), getLength(w))
    /\ w.z = LastOf(AxisOf(fed, k, 3), getLength(w))

\* C13: with 0 <= V < C, a summary returned by handleData is the features
\* of exactly the C samples given last, the ones retained by the previous
\* slide included, and after it the windows retain the last V of them, the
\* samples the next summary shares with this one.
C13_SummaryOverLastC ==
    LET C == handler.accWindow.windowSize
        V == handler.accWindow.overlapSize
    IN  V < C =>
          /\ HoldsLatest(handler.accWindow, 1)
          /\ HoldsLatest(handler.gyroWindow, 2)
          /\ IsSummary(hret.value) =>
                /\ Len(fed) = C
                /\ hret.value = Value([accelerometer |-> FeaturesOf(fed, 1),
                                       gyroscope |-> FeaturesOf(fed, 2)])
                /\ getLength(handler.accWindow) = V
                /\ getLength(handler.gyroWindow) = V

\* The second summary of a handler with C = 3 and V = 1, over three
\* different samples, the first of which the first summary covered too.
C13_Witness ==
    /\ handler.accWindow.windowSize = 3
    /\ handler.accWindow.overlapSize = 1
    /\ calls = 5
    /\ IsSummary(hret.value)
    /\ Len(fed) = 3
    /\ fed[1] # fed[2] /\ fed[2] # fed[3] /\ fed[1] # fed[3]

----------------------------------------------------------------------------
\* f is the minimum, the maximum and the arithmetic mean of the values of
\* axis a, or NaN three times when a is empty.
IsAxisSummary(f, a) ==
    IF Len(a) = 0
    THEN f.min = NaN /\ f.max = NaN /\ f.mean = NaN
    ELSE /\ f.min[2] = 1 /\ f.max[2] = 1
         /\ f.min[1] \in Range(a) /\ \A v \in Range(a) : f.min[1] <= v
         /\ f.max[1] \in Range(a) /\ \A v \in Range(a) : f.max[1] >= v
         /\ f.mean[2] > 0
         /\ f.mean[1] * Len(a) = SeqSum(a) * f.mean[2]

\* C14: extractFeatures returns, for each axis, the minimum, the maximum
\* and the mean (sum over count) of the values the axis holds, so that
\* [1, 2, 3] gives mean 2, min 1, max 3, and NaN for all three fields of an
\* axis that is empty.
C14_MinMaxMean ==
    wret.op = "extractFeatures" =>
        LET f == wret.value.value[1]
        IN  /\ IsSummary(wret.value)
            /\ IsAxisSummary(f.x, win.x)
            /\ IsAxisSummary(f.y, win.y)
            /\ IsAxisSummary(f.z, win.z)
            /\ win.x = <<10, 20, 30>> =>
                   f.x = [mean |-> Num(20), min |-> Num(10), max |-> Num(30)]
            /\ win.x = <<>> => f.x = [mean |-> NaN, min |-> NaN, max |-> NaN]

\* The features of a window whose x axis holds 1, 2, 3 have been extracted.
C14_Witness ==
    /\ wret.op = "extractFeatures"
    /\ win.x = <<10, 20, 30>>
    /\ wret.value.value[1].x.mean = Num(20)
    /\ wret.value.value[1].x.min = Num(10)
    /\ wret.value.value[1].x.max = Num(30)

----------------------------------------------------------------------------
\* C15: extractFeatures only reads.  The call leaves the window, and
\* everything else, as it was, so that the result it returned is the one
\* a second call made right after it returns, and the calls that follow
\* find the window the calls before left.
C15_ExtractFeaturesOnlyReads ==
    /\ [][ wret'.op = "extractFeatures" =>
               /\ win' = win
               /\ UNCHANGED <<wadds, wslid, handler, hret, calls, fed>>
               /\ wret'.value = Value(extractFeatures(win')) ]_vars
    /\ [](wret.op = "extractFeatures" =>
               wret.value = Value(extractFeatures(win)))

\* The features of a full window that has slid before have been extracted.
C15_Witness ==
    /\ wret.op = "extractFeatures"
    /\ wslid
    /\ win.overlapSize = 1
    /\ isFull(win)
    /\ win.y = <<30, 20, 10>>

----------------------------------------------------------------------------
----------------------------------------------------------------------------
\* C17: gyroSequence and accSequence always have the same length and are
\* empty whenever the segmenter is IDLE.  A sample taken while COLLECTING
\* adds one element to each, the step that closes a capture leaves both
\* empty whether it sends the capture or drops it, and what is sent holds
\* the samples of the capture that closes and no other.
C17_SequencesInLockStep ==
    /\ [](/\ Len(gyroSequence) = Len(accSequence)
          /\ ~collectingData => (gyroSequence = <<>> /\ accSequence = <<>>))
    /\ [][ /\ (capture' # capture /\ collectingData') =>
                  /\ Len(gyroSequence') =
                         IF collectingData THEN Len(gyroSequence) + 1 ELSE 1
                  /\ Len(accSequence') =
                         IF collectingData THEN Len(accSequence) + 1 ELSE 1
           /\ capture' = capture =>
                  UNCHANGED <<gyroSequence, accSequence>>
           /\ Closes =>
                  /\ gyroSequence' = <<>> /\ accSequence' = <<>>
                  /\ \A i \in 1..Len(sent') :
                         Len(sent'[i]) = 2 * Len(capture')
         ]_vars

\* A second capture has just been sent, and both sequences are empty.
C17_Witness ==
    /\ ~collectingData
    /\ pending = 2
    /\ Len(sent) = 1
    /\ Len(sent[1]) = 2 * Len(capture)
    /\ gyroSequence = <<>>
    /\ accSequence = <<>>

----------------------------------------------------------------------------
\* C18: a handler with 0 <= V < C that is driven through handleData only
\* never throws, which includes the "Window is not full" of a slide on a
\* window that is not full, and after every call both windows hold fewer
\* than C samples.  With V = C the first slide leaves the windows full and
\* every later call throws "Window is full".
C18_HandlerNeverThrows ==
    LET C == handler.accWindow.windowSize
        V == handler.accWindow.overlapSize
    IN  /\ (0 <= V /\ V < C) =>
              /\ hret.thrown = None
              /\ getLength(handler.accWindow) < C
              /\ getLength(handler.gyroWindow) < C
        /\ V = C =>
              /\ calls <= C => hret.thrown = None
              /\ calls >= C =>
                     (isFull(handler.accWindow) /\ isFull(handler.gyroWindow))
              /\ calls > C => hret.thrown = "Window is full"

\* A handler with V = C - 1 after its last explored call, and never an
\* error.
C18_Witness ==
    /\ handler.accWindow.windowSize = MaxCap
    /\ handler.accWindow.overlapSize = MaxCap - 1
    /\ calls = MaxCalls
    /\ hret.thrown = None
    /\ IsSummary(hret.value)

\* A handler with V = C refusing the sample that follows its one summary.
C18_WitnessFull ==
    /\ handler.accWindow.windowSize = 2
    /\ handler.accWindow.overlapSize = 2
    /\ calls = 3
    /\ hret.thrown = "Window is full"

----------------------------------------------------------------------------
\* The constants are the shipped ones: threshold 1.5, end band [-1, 1],
\* start run 1, end run 5, minimum length 20.
ShippedConstants ==
    /\ gyroscopeYThreshold = 15
    /\ anomalyEndThresholdLow = -10
    /\ anomalyEndThresholdHigh = 10
    /\ startThresholdCount = 1
    /\ counterThreshold = 5
    /\ minimumAnomalyLength = 20

\* C19: with the shipped constants the sample that opens a capture is above
\* the threshold and so outside the end band, and no step both opens and
\* closes a capture: a step that finds and leaves the segmenter IDLE has
\* opened nothing and sends nothing.  A capture that closes holds at least
\* 6 samples.  In a sequence that is sent the first element of the
\* gyroscope half has a magnitude above 1.5 and its last 5 elements lie in
\* [-1, 1].
C19_ShapeOfCaptures ==
    [][ ShippedConstants =>
        /\ (~collectingData /\ collectingData') =>
               /\ Abs(ev'.gyroY) > 15
               /\ ~(-10 <= ev'.gyroY /\ ev'.gyroY <= 10)
               /\ capture' = <<ev'>>
        /\ (~collectingData /\ ~collectingData') =>
               /\ UNCHANGED <<inThresholdCounter, gyroSequence, accSequence>>
               /\ sent' = sent \/ sent' = <<>>
               /\ capture' = capture \/ capture' = <<>>
        /\ Closes => Len(capture') >= 6
        /\ sent' # sent =>
               \A i \in 1..Len(sent') :
                   LET n == Len(sent'[i]) \div 2
                   IN  /\ n >= 20
                       /\ Abs(sent'[i][1]) > 15
                       /\ \A j \in (n - 4)..n :
                              -10 <= sent'[i][j] /\ sent'[i][j] <= 10
      ]_vars

\* A capture opened by gyroscope Y = -2 and closed by five samples on the
\* upper edge of the end band has just been sent.
C19_Witness ==
    /\ ~collectingData
    /\ Len(sent) = 1
    /\ sent[1][1] = 20
    /\ sent[1][Len(sent[1]) \div 2] = -10
    /\ capture[1].gyroY = -20
    /\ capture[Len(capture)].gyroY = 10

----------------------------------------------------------------------------
\* The models shown: those whose element has a height.
Shown == {m \in ModelIDs : height[m] # "0"}

\* C20: whatever the order of the responses, at most one gesture animation
\* plays at a time, and the model shown is the one playing, or the idle one
\* when none is.  A response arriving while isAnimationPlaying is true
\* starts no animation and changes no model's visibility.  The flag is set
\* only by a response that starts the animation of a gesture model, and
\* cleared only when the animation of the model playing has finished; a
\* response arriving after that either is no gesture or starts an
\* animation.
C20_OneAnimationAtATime ==
    /\ [](/\ Cardinality(playing) <= 1
          /\ isAnimationPlaying <=> playing # {}
          /\ Shown = IF playing = {} THEN {"idle_model"} ELSE playing)
    /\ [][ /\ (isAnimationPlaying /\ pending' < pending) =>
                  UNCHANGED pageVars
           /\ (~isAnimationPlaying /\ pending' < pending) =>
                  \/ UNCHANGED pageVars
                  \/ isAnimationPlaying' /\ playing' # {}
           /\ (~isAnimationPlaying /\ isAnimationPlaying') =>
                  /\ pending' < pending
                  /\ \E m \in ModelIDs \ {"idle_model"} : playing' = {m}
           /\ (isAnimationPlaying /\ ~isAnimationPlaying') =>
                  /\ pending' = pending
                  /\ playing' = {}
           /\ playing' # playing => isAnimationPlaying' # isAnimationPlaying
         ]_vars

\* The pull back animation is playing while another response is awaited.
C20_Witness ==
    /\ isAnimationPlaying
    /\ playing = {"pullback_model"}
    /\ Shown = {"pullback_model"}
    /\ pending = 1

====
